---- MODULE Spec2Model ----
(***************************************************************************)
(* Version selection of the historic cadastre viewer (src/src/App.tsx).    *)
(*                                                                         *)
(* The component keeps the selected version keys (selectedKeys), their     *)
(* colors (colorByKey), the features of the overlay vector source          *)
(* (vecSrcRef), the detail drawer, a toast and an error message.           *)
(* toggleVersion is an async function: its add path suspends at the        *)
(* geometry fetch and at the all-properties fetch.  Every invocation keeps *)
(* the selectedKeys of the render in which the row was clicked (the        *)
(* closure of the function component); the state setters are applied when  *)
(* the awaited response arrives.  One action models one synchronous        *)
(* segment of a handler.                                                   *)
(*                                                                         *)
(* Strings built by template literals are modelled as sequences of tokens, *)
(* JavaScript objects as records whose absent properties are absent        *)
(* fields, arrays as sequences.  The vector source is the set of its       *)
(* features (getFeatures() promises no order).  A feature of the service   *)
(* carries the id of its version (WfsFeature.id), the geometry query of a  *)
(* version matches that one feature, and an OpenLayers vector source keeps *)
(* one feature per id: addFeatures skips a feature whose id it holds.      *)
(*                                                                         *)
(* The variable probe is an observer and no state of the program: it       *)
(* remembers the state a call started from, so that "unchanged" and        *)
(* "restored" can be stated for a call as a whole.                         *)
(***************************************************************************)
EXTENDS Integers, Sequences, FiniteSets, Bags, TLC

(* ----------------------------- bounds ---------------------------------- *)
\* toggle-adds that may be suspended at a fetch at the same time
MaxPending == 2

\* length of the lists given to the listing sort
MaxItems == 3

\* number of geometries given to the view fit
MaxGeometries == 2

(* --------------------------- program values ---------------------------- *)
COLORS == <<"#22c55e", "#3b82f6">>

DefaultColor == "#22c55e"

\* capacity of the selection, the literal 2 of `selectedKeys.length >= 2`
MaxSelected == 2

Null == "null-value"

CapacityToast == "Maksimaalselt 2 versiooni saab korraga võrrelda. Eemalda üks, et lisada uus."

ErrNoGeometry == "Geomeetriat ei leitud."

\* `WFS error ${r.status}` for the non-success status the service answers with
ErrWfsStatus == "WFS error 500"

\* message of the TypeError a rejected fetch carries
ErrFetchRejected == "Failed to fetch"

\* the message doSearch sets for an input that is no full identifier
ErrValidation == "Palun sisesta täielik tunnus kujul 79501:027:0011"

\* how an awaited fetch can fail: the promise rejects, the answer has a
\* non-success status (!r.ok), or (geometry only) no feature is read from it
GeometryFailures == {"rejected", "status", "empty"}

DetailFailures == {"rejected", "status"}

\* the message of the Error the catch block receives (e.message)
FailureMessage(outcome) ==
  CASE outcome = "rejected" -> ErrFetchRejected
    [] outcome = "status" -> ErrWfsStatus
    [] outcome = "empty" -> ErrNoGeometry

\* the version rows of the listing table (KyFeatureProps), two identifiers
Rows ==
  { [tunnus |-> "79501:027:0011", kehtiv_alates |-> "2019-01-01", kehtiv_kuni |-> "2020-01-01"],
    [tunnus |-> "79501:027:0011", kehtiv_alates |-> "2020-01-01", kehtiv_kuni |-> Null],
    [tunnus |-> "79501:027:0012", kehtiv_alates |-> "2019-01-01", kehtiv_kuni |-> Null] }

\* new Date(s).getTime(), in days relative to 2019-01-01
DateTime(s) ==
  CASE s = "2019-01-01" -> 0
    [] s = "2020-01-01" -> 365
    [] s = "2020-06-01" -> 517
    [] s = "2021-06-01" -> 882
    [] OTHER -> 0

(* ------------------------------ helpers -------------------------------- *)
Range(s) == {s[i] : i \in 1..Len(s)}

\* String(v) inside a template literal: null prints as the word null
Str(v) == IF v = Null THEN "null" ELSE v

\* `${row.tunnus}|${row.kehtiv_alates}|${row.kehtiv_kuni}`
KeyOf(row) == <<row.tunnus, "|", Str(row.kehtiv_alates), "|", Str(row.kehtiv_kuni)>>

\* x.startsWith(`${tunnus}|`)
StartsWithTunnus(x, tunnus) == Len(x) >= 2 /\ SubSeq(x, 1, 2) = <<tunnus, "|">>

AllKeys == {KeyOf(r) : r \in Rows}

\* selectedKeys.includes(k)
Includes(keys, k) == \E i \in 1..Len(keys) : keys[i] = k

\* selectedKeys.filter(x => x !== k)
FilterOut(keys, k) == SelectSeq(keys, LAMBDA x : x # k)

\* mutant of Spread: the new key is put in front
SpreadInFront(keys, k) == <<k>> \o keys

\* [...selectedKeys, k]
Spread(keys, k) == Append(keys, k)

\* mutant of AtCapacity: the comparison is > instead of >=
AtCapacityOffByOne(keys) == Len(keys) > MaxSelected

\* selectedKeys.length >= 2
AtCapacity(keys) == Len(keys) >= MaxSelected

\* COLORS[i] with the zero-based index i; past the end it is undefined
HasColor(i) == i + 1 <= Len(COLORS)

\* mutant of NextColors: every key gets the first color
NextColorsAllFirst(keys) == [k \in Range(keys) |-> COLORS[1]]

\* the object `next` built by assignColors: keys.forEach((k, i) => next[k] = COLORS[i])
\* (a later position overwrites an earlier one; an undefined color leaves the
\* property falsy, which is modelled as an absent property)
NextColors(keys) ==
  LET last(k) == CHOOSE i \in 1..Len(keys) :
                   keys[i] = k /\ \A j \in 1..Len(keys) : keys[j] = k => j <= i
  IN [k \in {x \in Range(keys) : HasColor(last(x) - 1)} |-> COLORS[last(k)]]

\* the id the service gives the feature of a version (WfsFeature.id)
FeatureId(row) == <<"ky_versioonid", row.tunnus, row.kehtiv_alates>>

\* f.set('___color', next[k]) on one feature, when k && next[k]
Painted(f, next) ==
  IF f.key \in DOMAIN next
    THEN [id |-> f.id, key |-> f.key, color |-> next[f.key]]
    ELSE f

\* feats.forEach(f => { if (k && next[k]) f.set('___color', next[k]) })
PushColors(feats, next) == {Painted(f, next) : f \in feats}

\* the style function of the vector layer: feat.get('___color') || '#22c55e'
DrawnColor(f) == IF "color" \in DOMAIN f THEN f.color ELSE DefaultColor

\* readFeatures(gj) of the answer for row, then feats.forEach(f => f.set('___key', k))
ReadFeatures(row, k) == {[id |-> FeatureId(row), key |-> k]}

\* vecSrcRef.current.addFeatures(feats)
AddFeatures(src, feats) == src \cup {f \in feats : \A g \in src : g.id # f.id}

\* getFeatures().filter(f => f.get('___key') === k).forEach(removeFeature)
RemoveFeatures(feats, k) == {f \in feats : f.key # k}

\* the keys the features of the source carry
FeatureKeys(feats) == {f.key : f \in feats}

\* detRows.sort((a, b) => time(b.kehtiv_alates) - time(a.kehtiv_alates)), stable
RECURSIVE InsertDesc(_, _)
InsertDesc(sorted, r) ==
  IF sorted = <<>> THEN <<r>>
  ELSE IF DateTime(r.kehtiv_alates) - DateTime(Head(sorted).kehtiv_alates) > 0
         THEN <<r>> \o sorted
         ELSE <<Head(sorted)>> \o InsertDesc(Tail(sorted), r)

RECURSIVE SortDetRows(_)
SortDetRows(rows) ==
  IF rows = <<>> THEN <<>>
  ELSE InsertDesc(SortDetRows(SubSeq(rows, 1, Len(rows) - 1)), rows[Len(rows)])

\* the feature collections the all-properties query of a tunnus can return
DetResponses(tunnus) ==
  LET of == {r \in Rows : r.tunnus = tunnus}
  IN {s \in [1..Cardinality(of) -> of] : Range(s) = of}

\* the empty object {} of setColorByKey({})
NoColors == <<>>

\* { open: false }
DrawerClosed == [open |-> FALSE]

\* new Date().toISOString().slice(0, 10), shifted to local time, at start-up
Today == "2020-06-01"

(* ------------------------------ strings -------------------------------- *)
\* an absent optional argument
Undefined == "undefined-value"

\* the truthiness of a string, null or undefined
Truthy(v) == v # Null /\ v # Undefined /\ v # ""

\* a || undefined
OrUndefined(a) == IF Truthy(a) THEN a ELSE Undefined

CharAt(s, i) == SubSeq(s, i, i)

\* the characters \d matches
Digits == {"0", "1", "2", "3", "4", "5", "6", "7", "8", "9"}

\* characters String.prototype.trim removes
WhiteSpace == {" ", "\t", "\n"}

RECURSIVE TrimStart(_)
TrimStart(s) ==
  IF Len(s) > 0 /\ CharAt(s, 1) \in WhiteSpace THEN TrimStart(SubSeq(s, 2, Len(s))) ELSE s

RECURSIVE TrimEnd(_)
TrimEnd(s) ==
  IF Len(s) > 0 /\ CharAt(s, Len(s)) \in WhiteSpace
    THEN TrimEnd(SubSeq(s, 1, Len(s) - 1))
    ELSE s

\* s.trim()
Trim(s) == TrimEnd(TrimStart(s))

\* mutant of TUNNUS_RE: the pattern is not anchored at its end
TUNNUS_RE_Unanchored(s) ==
  /\ Len(s) >= 14
  /\ \A i \in (1..5) \cup (7..9) \cup (11..14) : CharAt(s, i) \in Digits
  /\ CharAt(s, 6) = ":" /\ CharAt(s, 10) = ":"

\* TUNNUS_RE.test(s) for /^\d{5}:\d{3}:\d{4}$/
TUNNUS_RE(s) ==
  /\ Len(s) = 14
  /\ \A i \in (1..5) \cup (7..9) \cup (11..14) : CharAt(s, i) \in Digits
  /\ CharAt(s, 6) = ":" /\ CharAt(s, 10) = ":"

\* s.replace(/'/g, "''")
RECURSIVE EscapeFrom(_, _)
EscapeFrom(s, i) ==
  IF i > Len(s) THEN ""
  ELSE (IF CharAt(s, i) = "'" THEN "''" ELSE CharAt(s, i)) \o EscapeFrom(s, i + 1)

EscapeQuotes(s) == EscapeFrom(s, 1)

(* --------------------------- query builders ---------------------------- *)
\* Of the URL a builder returns, the model keeps the parameters that differ
\* between the builders: CQL_FILTER, sortBy and maxFeatures.

\* `kehtiv_alates <= '${date}' AND (kehtiv_kuni IS NULL OR kehtiv_kuni > '${date}')`
TemporalCql(date) ==
  "kehtiv_alates <= '" \o date \o "' AND (kehtiv_kuni IS NULL OR kehtiv_kuni > '" \o date \o "')"

\* mutant of BuildWfsUrl: an absent date is passed on as empty bounds
BuildWfsUrlAlwaysDated(tunnus, date) ==
  [cql |-> "tunnus = '" \o EscapeQuotes(tunnus) \o "' AND "
             \o TemporalCql(IF Truthy(date) THEN date ELSE ""),
   sortBy |-> "kehtiv_alates D", maxFeatures |-> "200"]

\* buildWfsUrl(tunnus, date?)
BuildWfsUrl(tunnus, date) ==
  [cql |-> IF Truthy(date)
             THEN "tunnus = '" \o EscapeQuotes(tunnus) \o "' AND " \o TemporalCql(date)
             ELSE "tunnus = '" \o EscapeQuotes(tunnus) \o "'",
   sortBy |-> "kehtiv_alates D", maxFeatures |-> "200"]

\* buildWfsUrl_fullByVersion(tunnus, ka, kk)
BuildWfsUrl_fullByVersion(tunnus, ka, kk) ==
  LET safeT == EscapeQuotes(tunnus)
      safeKa == IF Truthy(ka) THEN EscapeQuotes(ka) ELSE ""
      safeKk == IF Truthy(kk) THEN EscapeQuotes(kk) ELSE ""
  IN [cql |-> IF Truthy(kk)
                THEN "tunnus = '" \o safeT \o "' AND kehtiv_alates = '" \o safeKa
                       \o "' AND kehtiv_kuni = '" \o safeKk \o "'"
                ELSE "tunnus = '" \o safeT \o "' AND kehtiv_alates = '" \o safeKa
                       \o "' AND kehtiv_kuni IS NULL"]

\* buildWfsUrl_allProps(tunnus)
BuildWfsUrl_allProps(tunnus) ==
  [cql |-> "tunnus = '" \o EscapeQuotes(tunnus) \o "'",
   sortBy |-> "kehtiv_alates D", maxFeatures |-> "200"]

\* buildWfsUrl_byPoint(x, y, date?); cqlParts.join(' AND ')
BuildWfsUrl_byPoint(x, y, date) ==
  LET point == "INTERSECTS(geom,SRID=3301;POINT(" \o ToString(x) \o " " \o ToString(y) \o "))"
  IN [cql |-> IF Truthy(date) THEN point \o " AND " \o TemporalCql(date) ELSE point,
      sortBy |-> "kehtiv_alates D", maxFeatures |-> "1"]

\* the CQL_FILTER the effect on asOf gives the cadastre WMS layer
CadFilter(date) == IF Truthy(date) THEN TemporalCql(date) ELSE Undefined

(* ---------------------------- listing sort ----------------------------- *)
\* mutant of CompareItems: the tie on kehtiv_kuni is not broken by kehtiv_alates
CompareItemsNoTieBreak(a, b) ==
  LET aActive == a.kehtiv_kuni = Null
      bActive == b.kehtiv_kuni = Null
  IN IF aActive /\ ~ bActive THEN -1
     ELSE IF ~ aActive /\ bActive THEN 1
     ELSE IF Truthy(a.kehtiv_kuni) /\ Truthy(b.kehtiv_kuni)
       THEN DateTime(b.kehtiv_kuni) - DateTime(a.kehtiv_kuni)
       ELSE 0

\* the comparator of items.sort in doSearch
CompareItems(a, b) ==
  LET aActive == a.kehtiv_kuni = Null
      bActive == b.kehtiv_kuni = Null
      diff == DateTime(b.kehtiv_kuni) - DateTime(a.kehtiv_kuni)
  IN IF aActive /\ ~ bActive THEN -1
     ELSE IF ~ aActive /\ bActive THEN 1
     ELSE IF Truthy(a.kehtiv_kuni) /\ Truthy(b.kehtiv_kuni) /\ diff # 0 THEN diff
     ELSE IF Truthy(a.kehtiv_alates) /\ Truthy(b.kehtiv_alates)
       THEN DateTime(b.kehtiv_alates) - DateTime(a.kehtiv_alates)
       ELSE 0

\* Array.prototype.sort is stable: an item goes behind the items it does not
\* precede
RECURSIVE InsertItem(_, _)
InsertItem(sorted, r) ==
  IF sorted = <<>> THEN <<r>>
  ELSE IF CompareItems(r, Head(sorted)) < 0
         THEN <<r>> \o sorted
         ELSE <<Head(sorted)>> \o InsertItem(Tail(sorted), r)

\* items.sort((a, b) => ...) of doSearch
RECURSIVE SortItems(_)
SortItems(items) ==
  IF items = <<>> THEN <<>>
  ELSE InsertItem(SortItems(SubSeq(items, 1, Len(items) - 1)), items[Len(items)])

(* ------------------------------ extents -------------------------------- *)
\* createEmpty() of ol/extent, [Infinity, Infinity, -Infinity, -Infinity]: the
\* extent no coordinate has extended yet
EmptyExtent == <<>>

\* extendCoordinate(extent, coordinate) of ol/extent: it reads coordinate[0]
\* and coordinate[1]
ExtendCoordinate(extent, c) ==
  IF extent = EmptyExtent THEN <<c[1], c[2], c[1], c[2]>>
  ELSE <<IF c[1] < extent[1] THEN c[1] ELSE extent[1],
         IF c[2] < extent[2] THEN c[2] ELSE extent[2],
         IF c[1] > extent[3] THEN c[1] ELSE extent[3],
         IF c[2] > extent[4] THEN c[2] ELSE extent[4]>>

\* boundingExtent(coordinates) of ol/extent: the extent of a list of coordinates
RECURSIVE BoundingExtent(_)
BoundingExtent(coordinates) ==
  IF coordinates = <<>> THEN EmptyExtent
  ELSE ExtendCoordinate(BoundingExtent(SubSeq(coordinates, 1, Len(coordinates) - 1)),
                        coordinates[Len(coordinates)])

\* no call of view.fit
NoFit == <<"no fit">>

\* fitAllSelected() on features with the extents exts: the extent given to view.fit
FitAllSelected(exts) == IF Len(exts) = 0 THEN NoFit ELSE BoundingExtent(exts)

\* the fit at the end of a toggle-add, over the features it read (at least one)
FitAfterAdd(exts) == BoundingExtent(exts)

(* ------------------------------ observer ------------------------------- *)
\* no call is observed
NoProbe == [status |-> "none"]

\* popupData null and the overlay without position: no popup is shown
NoPopup == [shown |-> FALSE]

\* no pure function was evaluated
NoCalc == [fn |-> "none"]

(* ------------------------------- state --------------------------------- *)
VARIABLES
  selectedKeys,   \* useState<string[]>([])
  colorByKey,     \* useState<Record<string, string>>({})
  vecSrc,         \* the features of vecSrcRef.current, each with ___key and ___color
  drawer,         \* useState({ open: false })
  toast,          \* useState<string | null>(null)
  error,          \* useState<string | null>(null)
  pending,        \* the invocations of the async handlers suspended at an await
  probe,          \* observer: the call that ran on its own, with the state it
                  \* started from (read by no action of the program)
  term,           \* useState('')
  asOf,           \* useState(today), '' once cleared
  rows,           \* useState<KyFeatureProps[]>([])
  loading,        \* useState(false)
  popupData,      \* useState<{ tunnus: string } | null>(null)
  calc            \* the last evaluation of one of the pure functions

\* the state of the version selection
selection == <<selectedKeys, colorByKey, vecSrc, drawer, toast>>

\* the state of the search form and of the identification popup
listing == <<term, asOf, rows, loading, popupData>>

vars == <<selectedKeys, colorByKey, vecSrc, drawer, toast, error, pending, probe,
          term, asOf, rows, loading, popupData, calc>>

Init ==
  /\ selectedKeys = <<>>
  /\ colorByKey = NoColors
  /\ vecSrc = {}
  /\ drawer = DrawerClosed
  /\ toast = Null
  /\ error = Null
  /\ pending = EmptyBag
  /\ probe = NoProbe
  /\ term = ""
  /\ asOf = Today
  /\ rows = <<>>
  /\ loading = FALSE
  /\ popupData = NoPopup
  /\ calc = NoCalc

\* an invocation suspended at `await fetch(url)`; keys is the selectedKeys of
\* its closure, which line 441 reads after the await
GeomTask(row, keys) == [row |-> row, keys |-> keys, stage |-> "geom"]

\* an invocation suspended at `await fetch(detUrl)`; the code after this await
\* reads only row and feats
DetTask(row) == [row |-> row, stage |-> "det"]

Suspended == BagToSet(pending)

\* The observer follows a toggleVersion call that starts while no other call is
\* suspended, and its repetition on the same row right after it settled.  It
\* keeps the selection before the first of the two calls (keys0, colors0,
\* src0); status is "running" while the call is suspended at a fetch (at
\* names the fetch), then "settled" or "failed".  Of clearSelections it keeps
\* that it ran (status "cleared"), whether it ran twice in a row, and the number
\* of keys selected before it.  Any other operation ends the observation.
Snapshot(status, row, at) ==
  [status |-> status, row |-> row, at |-> at, calls |-> 1, keys0 |-> selectedKeys,
   colors0 |-> colorByKey, src0 |-> vecSrc]

ProbeCall(row, status) ==
  IF pending # EmptyBag THEN NoProbe
  ELSE IF probe.status = "settled" /\ probe.calls = 1 /\ probe.row = row
    THEN [probe EXCEPT !.calls = 2, !.status = status]
    ELSE Snapshot(status, row, "geom")

ProbeStep(status, at) ==
  IF probe.status = "running" THEN [probe EXCEPT !.status = status, !.at = at] ELSE NoProbe

ProbeClear ==
  IF probe.status = "cleared"
    THEN [probe EXCEPT !.calls = 2]
    ELSE [status |-> "cleared", calls |-> 1, had |-> Len(selectedKeys)]

(* ------------------------------ actions -------------------------------- *)
\* toggleVersion(row), row already selected: lines 416-427
ToggleRemove(row) ==
  LET k == KeyOf(row)
      newKeys == FilterOut(selectedKeys, k)
  IN /\ Includes(selectedKeys, k)
     /\ selectedKeys' = newKeys
     /\ colorByKey' = NextColors(newKeys)
     /\ vecSrc' = RemoveFeatures(PushColors(vecSrc, NextColors(newKeys)), k)
     /\ drawer' = IF /\ drawer.open
                     /\ "tunnus" \in DOMAIN drawer
                     /\ drawer.tunnus = row.tunnus
                     /\ ~ \E i \in 1..Len(newKeys) : StartsWithTunnus(newKeys[i], row.tunnus)
                    THEN DrawerClosed
                    ELSE drawer
     /\ probe' = ProbeCall(row, "settled")
     /\ UNCHANGED <<toast, error, pending>>

\* mutant of ToggleReject: the oldest key is dropped to make room
ToggleRejectEvicts(row) ==
  /\ ~ Includes(selectedKeys, KeyOf(row))
  /\ AtCapacity(selectedKeys)
  /\ selectedKeys' = Tail(selectedKeys)
  /\ colorByKey' = NextColors(Tail(selectedKeys))
  /\ toast' = CapacityToast
  /\ probe' = ProbeCall(row, "settled")
  /\ UNCHANGED <<vecSrc, drawer, error, pending>>

\* toggleVersion(row), row not selected and the selection full: lines 429-432
ToggleReject(row) ==
  /\ ~ Includes(selectedKeys, KeyOf(row))
  /\ AtCapacity(selectedKeys)
  /\ toast' = CapacityToast
  /\ probe' = ProbeCall(row, "settled")
  /\ UNCHANGED <<selectedKeys, colorByKey, vecSrc, drawer, error, pending>>

\* toggleVersion(row), row not selected and room left: the geometry fetch is
\* issued and the invocation suspends, lines 434-436
ToggleAddStart(row) ==
  /\ ~ Includes(selectedKeys, KeyOf(row))
  /\ ~ AtCapacity(selectedKeys)
  /\ BagCardinality(pending) < MaxPending
  /\ pending' = pending (+) SetToBag({GeomTask(row, selectedKeys)})
  /\ probe' = ProbeCall(row, "running")
  /\ UNCHANGED <<selectedKeys, colorByKey, vecSrc, drawer, toast, error>>

ToggleVersion(row) == ToggleRemove(row) \/ ToggleReject(row) \/ ToggleAddStart(row)

\* mutant of GeometryFailed: the error is reported after the key was added
GeometryFailedAfterAdd(t, outcome) ==
  /\ t \in Suspended /\ t.stage = "geom"
  /\ outcome \in GeometryFailures
  /\ selectedKeys' = Spread(t.keys, KeyOf(t.row))
  /\ colorByKey' = NextColors(Spread(t.keys, KeyOf(t.row)))
  /\ error' = FailureMessage(outcome)
  /\ pending' = pending (-) SetToBag({t})
  /\ probe' = ProbeStep("failed", "geom")
  /\ UNCHANGED <<vecSrc, drawer, toast>>

\* the geometry fetch rejects, answers with a non-success status, or the
\* collection read from it has no feature: lines 436-440 and the catch 457-459
GeometryFailed(t, outcome) ==
  /\ t \in Suspended /\ t.stage = "geom"
  /\ outcome \in GeometryFailures
  /\ error' = FailureMessage(outcome)
  /\ pending' = pending (-) SetToBag({t})
  /\ probe' = ProbeStep("failed", "geom")
  /\ UNCHANGED <<selectedKeys, colorByKey, vecSrc, drawer, toast>>

\* the geometry fetch answers with the feature of the version: lines 441-448
GeometryLoaded(t) ==
  LET k == KeyOf(t.row)
      newKeys == Spread(t.keys, k)
  IN /\ t \in Suspended /\ t.stage = "geom"
     /\ selectedKeys' = newKeys
     /\ colorByKey' = NextColors(newKeys)
     /\ vecSrc' = AddFeatures(PushColors(vecSrc, NextColors(newKeys)), ReadFeatures(t.row, k))
     /\ pending' = (pending (-) SetToBag({t})) (+) SetToBag({DetTask(t.row)})
     /\ probe' = ProbeStep("running", "det")
     /\ UNCHANGED <<drawer, toast, error>>

\* the all-properties fetch rejects or answers with a non-success status:
\* lines 448-449 and the catch 457-459
DetailFailed(t, outcome) ==
  /\ t \in Suspended /\ t.stage = "det"
  /\ outcome \in DetailFailures
  /\ error' = FailureMessage(outcome)
  /\ pending' = pending (-) SetToBag({t})
  /\ probe' = ProbeStep("failed", "det")
  /\ UNCHANGED <<selectedKeys, colorByKey, vecSrc, drawer, toast>>

\* the all-properties fetch answers with the rows resp: lines 450-456
DetailLoaded(t, resp) ==
  /\ t \in Suspended /\ t.stage = "det"
  /\ resp \in DetResponses(t.row.tunnus)
  /\ drawer' = [open |-> TRUE, tunnus |-> t.row.tunnus, rows |-> SortDetRows(resp)]
  /\ pending' = pending (-) SetToBag({t})
  /\ probe' = ProbeStep("settled", "det")
  /\ UNCHANGED <<selectedKeys, colorByKey, vecSrc, toast, error>>

\* mutant of ClearSelections: the vector source is not cleared
ClearSelectionsKeepsFeatures ==
  /\ selectedKeys' = <<>>
  /\ colorByKey' = NoColors
  /\ drawer' = DrawerClosed
  /\ probe' = ProbeClear
  /\ UNCHANGED <<vecSrc, toast, error, pending>>

\* clearSelections(): lines 462-467
ClearSelections ==
  /\ selectedKeys' = <<>>
  /\ colorByKey' = NoColors
  /\ vecSrc' = {}
  /\ drawer' = DrawerClosed
  /\ probe' = ProbeClear
  /\ UNCHANGED <<toast, error, pending>>

\* the drawer handle: setDrawer(d => ({ ...d, open: !d.open })), line 717
DrawerHandle ==
  /\ drawer' = [drawer EXCEPT !.open = ~ @]
  /\ probe' = NoProbe
  /\ UNCHANGED <<selectedKeys, colorByKey, vecSrc, toast, error, pending>>

\* the timer of the toast effect fires: setToast(null), lines 224-229
ToastTimeout ==
  /\ toast # Null
  /\ toast' = Null
  /\ UNCHANGED <<selectedKeys, colorByKey, vecSrc, drawer, error, pending, probe>>

\* the version selection on its own: the rows of the listing table are Rows,
\* the search form and the popup are left alone
Next ==
  \/ \E row \in Rows : ToggleRemove(row) /\ UNCHANGED <<listing, calc>>
  \/ \E row \in Rows : ToggleReject(row) /\ UNCHANGED <<listing, calc>>
  \/ \E row \in Rows : ToggleAddStart(row) /\ UNCHANGED <<listing, calc>>
  \/ \E t \in Suspended, outcome \in GeometryFailures :
        GeometryFailed(t, outcome) /\ UNCHANGED <<listing, calc>>
  \/ \E t \in Suspended : GeometryLoaded(t) /\ UNCHANGED <<listing, calc>>
  \/ \E t \in Suspended, outcome \in DetailFailures :
        DetailFailed(t, outcome) /\ UNCHANGED <<listing, calc>>
  \/ \E t \in Suspended : \E resp \in DetResponses(t.row.tunnus) :
        DetailLoaded(t, resp) /\ UNCHANGED <<listing, calc>>
  \/ ClearSelections /\ UNCHANGED <<listing, calc>>
  \/ DrawerHandle /\ UNCHANGED <<listing, calc>>
  \/ ToastTimeout /\ UNCHANGED <<listing, calc>>

Spec == Init /\ [][Next]_vars

(* ------------------------- search and identify ------------------------ *)
\* a doSearch invocation suspended at `await fetch(url)`; the code after the
\* await reads nothing of its closure
ListTask(url) == [stage |-> "list", url |-> url]

\* a handleMapClick invocation suspended at `await fetch(url)`; x and y are the
\* clicked coordinate, which the code after the await gives the popup
PointTask(url, xy) == [stage |-> "point", url |-> url, xy |-> xy]

ListFailures == {"rejected", "status"}

\* how a point query ends without a feature: the fetch rejects, the answer has a
\* non-success status, or its feature collection is empty
IdentifyMisses == {"rejected", "status", "none"}

\* the as-of dates the date input can hold
AsOfValues == {Today, "2019-06-01", ""}

\* the feature collections the service can answer the listing request url
\* with: the versions of the queried tunnus that the date filter lets through,
\* in any order
ListResponses(url) ==
  LET of == {r \in Rows : \E d \in AsOfValues : BuildWfsUrl(r.tunnus, OrUndefined(d)) = url}
  IN UNION {{s \in [1..Cardinality(sub) -> sub] : Range(s) = sub} : sub \in SUBSET of}

\* The observer follows a listing search that starts while no other is in
\* flight, and a second one (for another url) started before the first
\* resolved: urls are the requests in the order they were issued, arrived the
\* answers in the order they arrived.  A failed listing fetch leaves status
\* "listFailed", with solo telling that the failed search was the only one; a
\* point query that ended without a feature leaves status "missed".
ProbeSearch(url) ==
  IF \A t \in Suspended : t.stage # "list"
    THEN [status |-> "searching", urls |-> <<url>>, arrived |-> <<>>]
  ELSE IF probe.status = "searching" /\ Len(probe.urls) = 1 /\ probe.arrived = <<>>
            /\ probe.urls[1] # url
    THEN [probe EXCEPT !.urls = Append(@, url)]
  ELSE NoProbe

ProbeArrived(t, resp) ==
  IF probe.status = "searching"
    THEN [probe EXCEPT !.arrived = Append(@, [url |-> t.url, resp |-> resp])]
    ELSE NoProbe

ProbeListFailed ==
  [status |-> "listFailed", solo |-> probe.status = "searching" /\ Len(probe.urls) = 1]

\* mutant of DoSearch: the format is tested on the input as typed, untrimmed
DoSearchUntrimmed(tunnusOverride) ==
  LET typed == IF tunnusOverride # Undefined THEN tunnusOverride ELSE term
      url == BuildWfsUrl(Trim(typed), OrUndefined(asOf))
  IN IF TUNNUS_RE(typed)
       THEN /\ BagCardinality(pending) < MaxPending
            /\ error' = Null
            /\ rows' = <<>>
            /\ loading' = TRUE
            /\ pending' = pending (+) SetToBag({ListTask(url)})
            /\ probe' = ProbeSearch(url)
       ELSE /\ error' = ErrValidation
            /\ rows' = <<>>
            /\ probe' = NoProbe
            /\ UNCHANGED <<loading, pending>>

\* doSearch(tunnusOverride) up to its await: lines 376-384
DoSearch(tunnusOverride) ==
  LET q == Trim(IF tunnusOverride # Undefined THEN tunnusOverride ELSE term)
      url == BuildWfsUrl(q, OrUndefined(asOf))
  IN IF TUNNUS_RE(q)
       THEN /\ BagCardinality(pending) < MaxPending
            /\ error' = Null
            /\ rows' = <<>>
            /\ loading' = TRUE
            /\ pending' = pending (+) SetToBag({ListTask(url)})
            /\ probe' = ProbeSearch(url)
       ELSE /\ error' = ErrValidation
            /\ rows' = <<>>
            /\ probe' = NoProbe
            /\ UNCHANGED <<loading, pending>>

\* the search input: setTerm(e.target.value.trim()), line 610
SetTerm(value) ==
  /\ term' = Trim(value)
  /\ probe' = NoProbe
  /\ UNCHANGED <<selection, error, pending, asOf, rows, loading, popupData, calc>>

\* mutant of Submit: a new search closes the drawer
SubmitClosesDrawer ==
  /\ TUNNUS_RE(term)
  /\ ~ loading
  /\ DoSearch(Undefined)
  /\ drawer' = [open |-> FALSE]
  /\ UNCHANGED <<selectedKeys, colorByKey, vecSrc, toast, term, asOf, popupData, calc>>

\* the form is submitted; the submit button is disabled unless the term is a
\* full identifier and no search is loading: lines 604 and 617
Submit ==
  /\ TUNNUS_RE(term)
  /\ ~ loading
  /\ DoSearch(Undefined)
  /\ UNCHANGED <<selection, term, asOf, popupData, calc>>

\* the date input changes: setAsOf(value), then doSearch() of this render when
\* the term is a full identifier, line 553
DateInput(value) ==
  /\ value # asOf
  /\ asOf' = value
  /\ IF Truthy(term) /\ TUNNUS_RE(term)
       THEN DoSearch(Undefined)
       ELSE probe' = NoProbe /\ UNCHANGED <<error, rows, loading, pending>>
  /\ UNCHANGED <<selection, term, popupData, calc>>

\* the clear-date button: setAsOf(''), then doSearch() as for the input, line 557
DateClear ==
  /\ asOf' = ""
  /\ IF Truthy(term) /\ TUNNUS_RE(term)
       THEN DoSearch(Undefined)
       ELSE probe' = NoProbe /\ UNCHANGED <<error, rows, loading, pending>>
  /\ UNCHANGED <<selection, term, popupData, calc>>

\* the identifier in the popup is clicked: handlePopupTunnusClick, lines 254-258
PopupTunnusClick ==
  /\ popupData.shown
  /\ term' = popupData.tunnus
  /\ DoSearch(popupData.tunnus)
  /\ popupData' = NoPopup
  /\ UNCHANGED <<selection, asOf, calc>>

\* closePopup(), from the popup's close button or a drag of the map: lines 249-252
ClosePopup ==
  /\ popupData' = NoPopup
  /\ probe' = NoProbe
  /\ UNCHANGED <<selection, error, pending, term, asOf, rows, loading, calc>>

\* mutant of ListLoaded: an answer is dropped when rows were already stored
ListLoadedKeepsFirst(t, resp) ==
  /\ t \in Suspended /\ t.stage = "list"
  /\ rows' = IF rows = <<>> THEN SortItems(resp) ELSE rows
  /\ loading' = FALSE
  /\ pending' = pending (-) SetToBag({t})
  /\ probe' = ProbeArrived(t, resp)
  /\ UNCHANGED <<selection, error, term, asOf, popupData, calc>>

\* the listing fetch answers with the feature collection resp: lines 386-403, 407
ListLoaded(t, resp) ==
  /\ t \in Suspended /\ t.stage = "list"
  /\ rows' = SortItems(resp)
  /\ loading' = FALSE
  /\ pending' = pending (-) SetToBag({t})
  /\ probe' = ProbeArrived(t, resp)
  /\ UNCHANGED <<selection, error, term, asOf, popupData, calc>>

\* mutant of ListFailed: the failed search is issued again
ListFailedRetries(t, outcome) ==
  /\ t \in Suspended /\ t.stage = "list"
  /\ outcome \in ListFailures
  /\ error' = FailureMessage(outcome)
  /\ probe' = ProbeListFailed
  /\ UNCHANGED <<selection, pending, term, asOf, rows, loading, popupData, calc>>

\* the listing fetch rejects or answers with a non-success status: lines
\* 384-385 and 404-408
ListFailed(t, outcome) ==
  /\ t \in Suspended /\ t.stage = "list"
  /\ outcome \in ListFailures
  /\ error' = FailureMessage(outcome)
  /\ loading' = FALSE
  /\ pending' = pending (-) SetToBag({t})
  /\ probe' = ProbeListFailed
  /\ UNCHANGED <<selection, term, asOf, rows, popupData, calc>>

\* mutant of MapClick: the click also clears the selection
MapClickClears(xy) ==
  /\ BagCardinality(pending) < MaxPending
  /\ popupData' = NoPopup
  /\ selectedKeys' = <<>>
  /\ colorByKey' = NoColors
  /\ pending' = pending (+) SetToBag({PointTask(BuildWfsUrl_byPoint(xy[1], xy[2], OrUndefined(asOf)), xy)})
  /\ probe' = NoProbe
  /\ UNCHANGED <<vecSrc, drawer, toast, error, term, asOf, rows, loading, calc>>

\* a single click on the map at xy: handleMapClick up to its await, lines 260-265
MapClick(xy) ==
  /\ BagCardinality(pending) < MaxPending
  /\ popupData' = NoPopup
  /\ pending' = pending (+) SetToBag({PointTask(BuildWfsUrl_byPoint(xy[1], xy[2], OrUndefined(asOf)), xy)})
  /\ probe' = NoProbe
  /\ UNCHANGED <<selection, error, term, asOf, rows, loading, calc>>

\* the point query answers with a feature of the identifier tunnus: lines 267-272
IdentifyFound(t, tunnus) ==
  /\ t \in Suspended /\ t.stage = "point"
  /\ popupData' = [shown |-> TRUE, tunnus |-> tunnus, at |-> t.xy]
  /\ pending' = pending (-) SetToBag({t})
  /\ probe' = NoProbe
  /\ UNCHANGED <<selection, error, term, asOf, rows, loading, calc>>

\* the point query rejects, answers with a non-success status or with no
\* feature: lines 266, 269 and 273-275
IdentifyMissed(t, outcome) ==
  /\ t \in Suspended /\ t.stage = "point"
  /\ outcome \in IdentifyMisses
  /\ pending' = pending (-) SetToBag({t})
  /\ probe' = [status |-> "missed", outcome |-> outcome]
  /\ UNCHANGED <<selection, error, term, asOf, rows, loading, popupData, calc>>

\* what the user types into the search input
TermInputs == {"79501:027:0011", " 79501:027:0012\t", "79501:027:001", ""}

\* the identifiers the features of the service carry
ServiceTunnus == {"79501:027:0011", "\n79501:027:0012 ", "79501:027:00112", "7950A:027:0011", ""}

\* the coordinate of a map click
ClickPoints == {<<538000, 6500000>>}

\* the search form and the identification popup on their own
SearchNext ==
  \/ \E value \in TermInputs : SetTerm(value)
  \/ Submit
  \/ \E value \in AsOfValues : DateInput(value)
  \/ DateClear
  \/ PopupTunnusClick
  \/ ClosePopup
  \/ \E t \in {u \in Suspended : u.stage = "list"} :
        \E resp \in ListResponses(t.url) : ListLoaded(t, resp)
  \/ \E t \in Suspended, outcome \in ListFailures : ListFailed(t, outcome)
  \/ \E xy \in ClickPoints : MapClick(xy)
  \/ \E t \in Suspended, tunnus \in ServiceTunnus : IdentifyFound(t, tunnus)
  \/ \E t \in Suspended, outcome \in IdentifyMisses : IdentifyMissed(t, outcome)

SearchSpec == Init /\ [][SearchNext]_vars

\* the identifiers of the features a map click finds in the whole application
ClickedTunnus == {"79501:027:0011", "7950A:027:0011"}

\* the answers to a listing request in the whole application: every version of
\* the queried tunnus, or none
FullListings(url) == {resp \in ListResponses(url) : \A other \in ListResponses(url) : Len(other) <= Len(resp)} \cup {<<>>}

\* the whole application: identification, search and the version selection,
\* whose rows are the rows of the listing
AppNext ==
  \/ \E xy \in ClickPoints : MapClick(xy)
  \/ \E t \in Suspended, tunnus \in ClickedTunnus : IdentifyFound(t, tunnus)
  \/ \E t \in Suspended, outcome \in IdentifyMisses : IdentifyMissed(t, outcome)
  \/ PopupTunnusClick
  \/ Submit
  \/ \E t \in {u \in Suspended : u.stage = "list"} :
        \E resp \in FullListings(t.url) : ListLoaded(t, resp)
  \/ \E t \in Suspended, outcome \in ListFailures : ListFailed(t, outcome)
  \/ \E i \in DOMAIN rows : ToggleRemove(rows[i]) /\ UNCHANGED <<listing, calc>>
  \/ \E i \in DOMAIN rows : ToggleAddStart(rows[i]) /\ UNCHANGED <<listing, calc>>
  \/ \E t \in Suspended, outcome \in GeometryFailures :
        GeometryFailed(t, outcome) /\ UNCHANGED <<listing, calc>>
  \/ \E t \in Suspended : GeometryLoaded(t) /\ UNCHANGED <<listing, calc>>
  \/ \E t \in Suspended, outcome \in DetailFailures :
        DetailFailed(t, outcome) /\ UNCHANGED <<listing, calc>>
  \/ \E t \in {u \in Suspended : u.stage = "det"} :
        \E resp \in DetResponses(t.row.tunnus) :
          DetailLoaded(t, resp) /\ UNCHANGED <<listing, calc>>
  \/ ClearSelections /\ UNCHANGED <<listing, calc>>

AppSpec == Init /\ [][AppNext]_vars

(* --------------------------- pure functions ---------------------------- *)
\* The query builders, the listing sort and the extent of the view fit are
\* functions of their arguments alone.  PureSpec evaluates each of them on
\* arguments drawn from the sets below and keeps the evaluation in calc.

\* identifiers, with and without quote characters
TunnusArgs == {"79501:027:0011", "12345:001:0001'; DROP", "'", "a'b''c", ""}

\* as-of dates: absent, empty, a date of the date input, a string with a quote
DateArgs == {Undefined, "", "2020-06-01", "2020'06"}

\* kehtiv_alates and kehtiv_kuni of a version row
FromArgs == {Null, "2019-01-01", "2019'01"}

ToArgs == {Null, "", "2020-01-01", "'2020"}

\* map coordinates of a click
PointArgs == {<<538000, 6500000>>, <<0, -1>>}

\* version records a listing answer can hold
Items ==
  [tunnus : {"79501:027:0011"},
   kehtiv_alates : {"2019-01-01", "2020-01-01"},
   kehtiv_kuni : {Null, "2020-01-01", "2021-06-01"}]

ItemLists == UNION {[1..n -> Items] : n \in 0..MaxItems}

\* extents [minX, minY, maxX, maxY] of geometries
Boxes == {<<0, 0, 2, 2>>, <<1, 1, 3, 3>>, <<5, 0, 6, 4>>, <<-4, -3, -1, 7>>}

BoxLists == UNION {[1..n -> Boxes] : n \in 0..MaxGeometries}

\* the rest of the state, which no evaluation touches
program == <<selectedKeys, colorByKey, vecSrc, drawer, toast, error, pending, probe,
             term, asOf, rows, loading, popupData>>

CallBuildWfsUrl(tunnus, date) ==
  /\ calc' = [fn |-> "buildWfsUrl", args |-> <<tunnus, date>>, out |-> BuildWfsUrl(tunnus, date)]
  /\ UNCHANGED program

CallFullByVersion(tunnus, ka, kk) ==
  /\ calc' = [fn |-> "buildWfsUrl_fullByVersion", args |-> <<tunnus, ka, kk>>,
              out |-> BuildWfsUrl_fullByVersion(tunnus, ka, kk)]
  /\ UNCHANGED program

CallAllProps(tunnus) ==
  /\ calc' = [fn |-> "buildWfsUrl_allProps", args |-> <<tunnus>>,
              out |-> BuildWfsUrl_allProps(tunnus)]
  /\ UNCHANGED program

CallByPoint(xy, date) ==
  /\ calc' = [fn |-> "buildWfsUrl_byPoint", args |-> <<xy, date>>,
              out |-> BuildWfsUrl_byPoint(xy[1], xy[2], date)]
  /\ UNCHANGED program

CallCadFilter(date) ==
  /\ calc' = [fn |-> "cadFilter", args |-> <<date>>, out |-> [cql |-> CadFilter(date)]]
  /\ UNCHANGED program

CallSortItems(items) ==
  /\ calc' = [fn |-> "sort", args |-> items, out |-> SortItems(items)]
  /\ UNCHANGED program

CallFitAllSelected(exts) ==
  /\ calc' = [fn |-> "fitAllSelected", args |-> exts, out |-> FitAllSelected(exts)]
  /\ UNCHANGED program

CallFitAfterAdd(exts) ==
  /\ Len(exts) > 0
  /\ calc' = [fn |-> "fitAfterAdd", args |-> exts, out |-> FitAfterAdd(exts)]
  /\ UNCHANGED program

PureNext ==
  \/ \E tunnus \in TunnusArgs, date \in DateArgs : CallBuildWfsUrl(tunnus, date)
  \/ \E tunnus \in TunnusArgs, ka \in FromArgs, kk \in ToArgs : CallFullByVersion(tunnus, ka, kk)
  \/ \E tunnus \in TunnusArgs : CallAllProps(tunnus)
  \/ \E xy \in PointArgs, date \in DateArgs : CallByPoint(xy, date)
  \/ \E date \in DateArgs : CallCadFilter(date)
  \/ \E items \in ItemLists : CallSortItems(items)
  \/ \E exts \in BoxLists : CallFitAllSelected(exts)
  \/ \E exts \in BoxLists : CallFitAfterAdd(exts)

PureSpec == Init /\ [][PureNext]_vars

(* ------------------------------- claims -------------------------------- *)
\* the state for which a claim says "unchanged"
overlay == <<selectedKeys, colorByKey, vecSrc>>

\* C1: in every reachable state, whatever toggleVersion and clearSelections
\* calls ran and however the fetches of overlapping toggle-adds resolved,
\* selectedKeys holds at most 2 keys.
Thm_C1_AtMostTwoSelected == Len(selectedKeys) <= MaxSelected

\* two keys are selected while a toggle-add that found room is still suspended
\* at its geometry fetch together with a second call
Wit_C1_FullWhileAddsOverlap ==
  /\ Len(selectedKeys) = MaxSelected
  /\ BagCardinality(pending) = 2
  /\ \E t \in Suspended : t.stage = "geom"

\* C2: in every reachable state colorByKey has exactly the keys of
\* selectedKeys and maps the key at position i to the i-th color of COLORS, so
\* the colors in use are the palette prefix of length |selectedKeys|.
Thm_C2_ColorsByPosition ==
  /\ DOMAIN colorByKey = Range(selectedKeys)
  /\ Len(selectedKeys) <= Len(COLORS)
  /\ \A i \in 1..Len(selectedKeys) :
        i <= Len(COLORS) => colorByKey[selectedKeys[i]] = COLORS[i]
  /\ {colorByKey[k] : k \in DOMAIN colorByKey} = {COLORS[i] : i \in 1..Len(selectedKeys)}

\* a call on its own removed the first of two selected keys: the key that was
\* second is the only one left and has the first color
Wit_C2_RemainingKeyRecolored ==
  /\ probe.status = "settled" /\ probe.calls = 1
  /\ Len(probe.keys0) = 2
  /\ probe.keys0[1] = KeyOf(probe.row)
  /\ selectedKeys = <<probe.keys0[2]>>
  /\ probe.colors0[probe.keys0[2]] = COLORS[2]
  /\ colorByKey[probe.keys0[2]] = COLORS[1]

\* C3 as stated: when toggleVersion(r) ran twice in a row on its own, every
\* fetch succeeding and the first call settled before the second, selectedKeys
\* (same keys, same order) and colorByKey are what they were before the first
\* call, whether r was selected at first or not.
Cex_C3_ToggleTwiceRestoresAll ==
  (probe.status = "settled" /\ probe.calls = 2)
    => (selectedKeys = probe.keys0 /\ colorByKey = probe.colors0)

\* C3 as amended: after the two calls the same keys are selected; order and
\* colors are those from before the first call when r was not selected at
\* first or was the last selected key, and when r was the first of two
\* selected keys it is now the last and the two keys have exchanged colors.
Thm_C3_ToggleTwiceRestoresKeys ==
  (probe.status = "settled" /\ probe.calls = 2)
    => LET k == KeyOf(probe.row)
           keys0 == probe.keys0
       IN /\ Range(selectedKeys) = Range(keys0)
          /\ Len(selectedKeys) = Len(keys0)
          /\ IF Includes(keys0, k) /\ keys0[Len(keys0)] # k
               THEN /\ selectedKeys = <<keys0[2], k>>
                    /\ colorByKey[k] = probe.colors0[keys0[2]]
                    /\ colorByKey[keys0[2]] = probe.colors0[k]
               ELSE /\ selectedKeys = keys0
                    /\ colorByKey = probe.colors0

\* r was the last of two selected keys, was removed by the first call and
\* added again by the second
Wit_C3_LastKeyToggledTwice ==
  /\ probe.status = "settled" /\ probe.calls = 2
  /\ Len(probe.keys0) = 2
  /\ probe.keys0[2] = KeyOf(probe.row)
  /\ Includes(selectedKeys, KeyOf(probe.row))

\* C4: when the geometry fetch or the all-properties fetch of a toggle-add
\* fails, an error message is set, selectedKeys, colorByKey and the overlay
\* features are what they were when the toggle-add started, and no request is
\* issued again.
Cex_C4_NoPartialAdd ==
  (probe.status = "failed" /\ probe.calls = 1)
    => /\ error # Null
       /\ overlay = <<probe.keys0, probe.colors0, probe.src0>>
       /\ pending = EmptyBag

\* C5: in every state the keys carried by the features of the vector source
\* are exactly the keys of selectedKeys, also when toggle-adds overlap (every
\* action is a whole synchronous segment, so no state is mid-mutation).
Cex_C5_GeometryIffSelected == FeatureKeys(vecSrc) = Range(selectedKeys)

\* C6: every feature of the vector source whose key has a color in colorByKey
\* is drawn with that color (its ___color, or the default of the style
\* function when ___color is unset).
Cex_C6_FeatureDrawnInItsColor ==
  \A f \in vecSrc : f.key \in DOMAIN colorByKey => DrawnColor(f) = colorByKey[f.key]

\* C7: a toggleVersion call on a row that is not selected while 2 keys are
\* selected issues no fetch, sets the capacity toast and leaves selectedKeys,
\* colorByKey, the overlay features and the drawer unchanged.
Thm_C7_CapacityRejection ==
  [][\A row \in Rows :
       (/\ ~ Includes(selectedKeys, KeyOf(row))
        /\ Len(selectedKeys) = MaxSelected
        /\ ToggleVersion(row))
         => (toast' = CapacityToast /\ UNCHANGED <<overlay, drawer, pending, error>>)]_vars

\* a call on its own was rejected: two keys are selected, the row of the call
\* is not among them, the toast is shown
Wit_C7_Rejected ==
  /\ probe.status = "settled"
  /\ Len(selectedKeys) = MaxSelected
  /\ selectedKeys = probe.keys0
  /\ ~ Includes(selectedKeys, KeyOf(probe.row))
  /\ toast = CapacityToast

\* C8: when the geometry fetch of a toggle-add rejects, answers with a
\* non-success status or yields zero features, the all-properties fetch is not
\* issued, an error message is set (the no-geometry message for zero
\* features), and selectedKeys, colorByKey, the overlay features and the
\* drawer are unchanged: by the step that issues the geometry fetch, by the
\* step that handles the failure, and for a call that ran on its own also with
\* respect to the state the call started from.
Thm_C8_GeometryFailureChangesNothing ==
  /\ [][\A row \in Rows : ToggleAddStart(row) => UNCHANGED <<overlay, drawer, error>>]_vars
  /\ [][\A t \in Suspended, outcome \in GeometryFailures :
          GeometryFailed(t, outcome)
            => /\ UNCHANGED <<overlay, drawer>>
               /\ error' # Null
               /\ outcome = "empty" => error' = ErrNoGeometry
               /\ \A u \in BagToSet(pending') : CopiesIn(u, pending') <= CopiesIn(u, pending)]_vars
  /\ []((probe.status = "failed" /\ probe.at = "geom" /\ probe.calls = 1)
          => /\ overlay = <<probe.keys0, probe.colors0, probe.src0>>
             /\ error # Null
             /\ pending = EmptyBag)

\* the geometry fetch of a call on its own yielded zero features
Wit_C8_NoGeometryFound ==
  /\ probe.status = "failed" /\ probe.at = "geom"
  /\ error = ErrNoGeometry
  /\ pending = EmptyBag

\* what clearSelections leaves behind
Cleared ==
  /\ selectedKeys = <<>>
  /\ DOMAIN colorByKey = {}
  /\ vecSrc = {}
  /\ ~ drawer.open
  /\ "rows" \notin DOMAIN drawer

\* C9: clearSelections, from any reachable state, leaves selectedKeys empty,
\* colorByKey empty, the vector source empty and the drawer closed without
\* rows; run a second time right after, it changes nothing.
Thm_C9_ClearEmptiesAndIsIdempotent ==
  [][ClearSelections
       => /\ Cleared'
          /\ probe.status = "cleared"
               => UNCHANGED <<overlay, drawer, toast, error, pending>>]_vars

\* clearSelections ran twice in a row, the first time on a non-empty selection
Wit_C9_ClearedTwice ==
  /\ probe.status = "cleared" /\ probe.calls = 2 /\ probe.had > 0
  /\ Cleared

\* C10: a toggle-removal of row r after which no selected key has r's tunnus
\* leaves the drawer closed and without rows of that tunnus; and in no
\* reachable state is the drawer open with rows of a tunnus that no selected
\* key has.
Cex_C10_DrawerFollowsSelection ==
  /\ [][\A row \in Rows :
          (/\ ToggleRemove(row)
           /\ ~ \E i \in 1..Len(selectedKeys') : StartsWithTunnus(selectedKeys'[i], row.tunnus))
            => /\ ~ drawer'.open
               /\ ~ ("rows" \in DOMAIN drawer' /\ drawer'.tunnus = row.tunnus)]_vars
  /\ []((drawer.open /\ "rows" \in DOMAIN drawer)
          => \E i \in 1..Len(selectedKeys) : StartsWithTunnus(selectedKeys[i], drawer.tunnus))

\* sub occurs in s
Contains(s, sub) ==
  \E i \in 1..(Len(s) - Len(sub) + 1) : SubSeq(s, i, i + Len(sub) - 1) = sub

\* the validity predicate for the date d: validFrom <= d AND (validTo IS NULL OR validTo > d)
ValidAt(d) ==
  "kehtiv_alates <= '" \o d \o "' AND (kehtiv_kuni IS NULL OR kehtiv_kuni > '" \o d \o "')"

\* C14: for an absent or empty as-of date the filter of the attribute query,
\* of the point query and of the WMS layer holds no validity predicate at all
\* (the WMS layer gets no filter); for a non-empty date d (without quote
\* characters, the subject of C15) it is exactly the predicate of ValidAt(d),
\* joined by AND to the identifier or intersection predicate.
Thm_C14_TemporalFilter ==
  LET d == calc.args[Len(calc.args)]
      dated == d # Undefined /\ d # ""
  IN /\ calc.fn = "buildWfsUrl"
          => LET id == "tunnus = '" \o EscapeQuotes(calc.args[1]) \o "'"
             IN IF dated
                  THEN ~ Contains(d, "'") => calc.out.cql = id \o " AND " \o ValidAt(d)
                  ELSE calc.out.cql = id /\ ~ Contains(calc.out.cql, "kehtiv_")
     /\ calc.fn = "buildWfsUrl_byPoint"
          => LET at == "INTERSECTS(geom,SRID=3301;POINT(" \o ToString(calc.args[1][1])
                         \o " " \o ToString(calc.args[1][2]) \o "))"
             IN IF dated
                  THEN ~ Contains(d, "'") => calc.out.cql = at \o " AND " \o ValidAt(d)
                  ELSE calc.out.cql = at /\ ~ Contains(calc.out.cql, "kehtiv_")
     /\ calc.fn = "cadFilter"
          => IF dated
               THEN ~ Contains(d, "'") => calc.out.cql = ValidAt(d)
               ELSE calc.out.cql = Undefined

\* the attribute query was built for an empty date, then also for a date
Wit_C14_EmptyDateNoPredicate ==
  /\ calc.fn = "buildWfsUrl"
  /\ calc.args = <<"79501:027:0011", "">>
  /\ calc.out.cql = "tunnus = '79501:027:0011'"

\* the position of the first quote of s at or behind position i, 0 when none
NextQuote(s, i) ==
  LET at == {k \in i..Len(s) : CharAt(s, k) = "'"}
  IN IF at = {} THEN 0 ELSE CHOOSE k \in at : \A j \in at : k <= j

\* a literal's text with every doubled quote read as one quote
RECURSIVE Unquote(_)
Unquote(t) ==
  LET q == NextQuote(t, 1)
  IN IF q = 0 THEN t
     ELSE SubSeq(t, 1, q) \o Unquote(SubSeq(t, q + 2, Len(t)))

\* The quoted literals of a CQL text, decoded: s is read from position i,
\* start is 0 outside a literal and the position of the literal's first
\* character inside one, acc holds the literals read.  Outside a literal the
\* next quote opens one; inside, a quote followed by a quote is a quote of
\* the text and any other quote ends the literal.
RECURSIVE ScanLiterals(_, _, _, _)
ScanLiterals(s, i, start, acc) ==
  LET q == NextQuote(s, i)
  IN IF q = 0 THEN (IF start = 0 THEN acc ELSE Append(acc, "<unterminated>"))
     ELSE IF start = 0 THEN ScanLiterals(s, q + 1, q + 1, acc)
     ELSE IF q < Len(s) /\ CharAt(s, q + 1) = "'" THEN ScanLiterals(s, q + 2, start, acc)
     ELSE ScanLiterals(s, q + 1, 0, Append(acc, Unquote(SubSeq(s, start, q - 1))))

Literals(cql) == ScanLiterals(cql, 1, 0, <<>>)

\* C15: the quoted literals of the filter each of the four query builders
\* returns are exactly the string arguments it places in literals
\* (identifier, validFrom, validTo, as-of date): every quote of an argument
\* is doubled, none ends a literal.
Cex_C15_QuotesEscaped ==
  LET str(v) == IF v = Null THEN "" ELSE v
      dated(d) == d # Undefined /\ d # ""
  IN /\ calc.fn = "buildWfsUrl"
          => Literals(calc.out.cql) =
               IF dated(calc.args[2])
                 THEN <<calc.args[1], calc.args[2], calc.args[2]>>
                 ELSE <<calc.args[1]>>
     /\ calc.fn = "buildWfsUrl_fullByVersion"
          => Literals(calc.out.cql) =
               IF str(calc.args[3]) # ""
                 THEN <<calc.args[1], str(calc.args[2]), calc.args[3]>>
                 ELSE <<calc.args[1], str(calc.args[2])>>
     /\ calc.fn = "buildWfsUrl_allProps"
          => Literals(calc.out.cql) = <<calc.args[1]>>
     /\ calc.fn = "buildWfsUrl_byPoint"
          => Literals(calc.out.cql) =
               IF dated(calc.args[2]) THEN <<calc.args[2], calc.args[2]>> ELSE <<>>

\* the number of places of list at which item stands
Count(list, item) == Cardinality({i \in 1..Len(list) : list[i] = item})

Least(S) == CHOOSE x \in S : \A y \in S : x <= y

Greatest(S) == CHOOSE x \in S : \A y \in S : x >= y

\* the smallest axis-aligned box covering every box of exts
Cover(exts) ==
  <<Least({exts[i][1] : i \in 1..Len(exts)}), Least({exts[i][2] : i \in 1..Len(exts)}),
    Greatest({exts[i][3] : i \in 1..Len(exts)}), Greatest({exts[i][4] : i \in 1..Len(exts)})>>

\* C17: the extent given to the view fit, after an add and on "fit all", is
\* absent for no geometry, the geometry's own bounding box for one geometry,
\* and the smallest box covering every geometry's bounding box for several.
Cex_C17_UnionExtent ==
  calc.fn \in {"fitAllSelected", "fitAfterAdd"}
    => IF Len(calc.args) = 0 THEN calc.out = NoFit
       ELSE IF Len(calc.args) = 1 THEN calc.out = calc.args[1]
       ELSE calc.out = Cover(calc.args)

\* C18: whenever no fetch is pending and the drawer is open with rows, the
\* drawer's tunnus is the tunnus of the most recently added key of
\* selectedKeys (its last key) and its rows are the sorted rows of an
\* all-properties answer for that tunnus, in whatever order the geometry and
\* all-properties answers arrived or failed.
Cex_C18_DrawerFollowsLatestAdd ==
  (pending = EmptyBag /\ drawer.open /\ "rows" \in DOMAIN drawer)
    => /\ selectedKeys # <<>>
       /\ StartsWithTunnus(selectedKeys[Len(selectedKeys)], drawer.tunnus)
       /\ \E resp \in DetResponses(drawer.tunnus) : drawer.rows = SortDetRows(resp)

\* s without the white space around it
Stripped(s) ==
  LET inked == {i \in 1..Len(s) : CharAt(s, i) \notin WhiteSpace}
  IN IF inked = {} THEN "" ELSE SubSeq(s, Least(inked), Greatest(inked))

\* five digits, a colon, three digits, a colon, four digits, and nothing else
IsFullTunnus(s) ==
  /\ Len(s) = 5 + 1 + 3 + 1 + 4
  /\ \A i \in 1..Len(s) :
       IF i \in {6, 10} THEN CharAt(s, i) = ":" ELSE CharAt(s, i) \in Digits

\* a step that issued exactly one more listing request
ListingRequested ==
  /\ BagCardinality(pending') = BagCardinality(pending) + 1
  /\ \E t \in BagToSet(pending') :
       /\ t.stage = "list"
       /\ CopiesIn(t, pending') = CopiesIn(t, pending) + 1

\* what a doSearch call on input does, by the claim
Gated(input) ==
  IF IsFullTunnus(Stripped(input))
    THEN ListingRequested
    ELSE /\ pending' = pending
         /\ error' = ErrValidation
         /\ rows' = <<>>

\* C11: every doSearch call (form submit, date change and clear with a full
\* identifier entered, click on the popup's identifier) issues one listing
\* request if and only if its input, stripped of surrounding white space, is
\* five digits, colon, three digits, colon, four digits; for any other input,
\* the empty string included, it issues no request, sets the validation
\* message and leaves rows empty.
Thm_C11_ValidationGating ==
  [][/\ Submit => Gated(term)
     /\ (Truthy(term) /\ TUNNUS_RE(term) /\ (DateClear \/ \E v \in AsOfValues : DateInput(v)))
          => Gated(term)
     /\ PopupTunnusClick => Gated(popupData.tunnus)]_vars

\* a search for an identifier with one digit too many was refused, no request
\* is in flight
Wit_C11_TooLongRefused ==
  /\ term = "79501:027:00112"
  /\ error = ErrValidation
  /\ rows = <<>>
  /\ ~ loading
  /\ pending = EmptyBag

\* C12: a map click leaves selectedKeys, colorByKey, the features of the vector
\* source, the drawer and the listing rows unchanged, at the click and when
\* its point query ends, however it ends; a point query that rejects, answers
\* with a non-success status or with no feature shows no popup and sets no
\* error message.
Thm_C12_IdentifyIsSilent ==
  [][/\ \A xy \in ClickPoints :
          MapClick(xy) => (~ popupData'.shown /\ UNCHANGED <<overlay, drawer, rows, error>>)
     /\ \A t \in Suspended :
          /\ \A outcome \in IdentifyMisses :
               IdentifyMissed(t, outcome)
                 => UNCHANGED <<overlay, drawer, rows, error, popupData>>
          /\ \A tunnus \in ClickedTunnus :
               IdentifyFound(t, tunnus)
                 => (popupData'.shown /\ UNCHANGED <<overlay, drawer, rows, error>>)]_vars

\* a point query found no feature while a version was selected, the drawer
\* open and rows listed: no popup, no error
Wit_C12_MissWithSelection ==
  /\ probe.status = "missed" /\ probe.outcome = "none"
  /\ selectedKeys # <<>>
  /\ vecSrc # {}
  /\ drawer.open
  /\ rows # <<>>
  /\ ~ popupData.shown
  /\ error = Null

\* C13: when the listing fetch rejects or answers with a non-success status,
\* error is set to a non-empty message, the failed search stores no rows
\* (rows are empty when it was the only search), loading is false again and no
\* request is issued; afterwards a map click, clearSelections, a toggle of
\* every listed row and (with a full identifier entered) a search can run.
Thm_C13_ListingFailure ==
  /\ [][\A t \in Suspended, outcome \in ListFailures :
          ListFailed(t, outcome)
            => /\ error' # Null /\ error' # ""
               /\ rows' = rows
               /\ loading' = FALSE
               /\ \A u \in BagToSet(pending') : CopiesIn(u, pending') <= CopiesIn(u, pending)]_vars
  /\ [](probe.status = "listFailed"
          => /\ probe.solo => (rows = <<>> /\ \A t \in Suspended : t.stage # "list")
             /\ ENABLED (\E xy \in ClickPoints : MapClick(xy))
             /\ ENABLED (ClearSelections /\ UNCHANGED <<listing, calc>>)
             /\ \A i \in DOMAIN rows :
                  ENABLED (ToggleVersion(rows[i]) /\ UNCHANGED <<listing, calc>>)
             /\ TUNNUS_RE(term) => ENABLED Submit)

\* the only search in flight failed with a non-success status while a version
\* was selected
Wit_C13_SoloSearchFailed ==
  /\ probe.status = "listFailed" /\ probe.solo
  /\ error = ErrWfsStatus
  /\ rows = <<>>
  /\ ~ loading
  /\ selectedKeys # <<>>

\* C20: a search started while another is in flight cancels nothing: both
\* requests stay in flight until answered; and once both were answered with
\* feature collections, rows holds the sorted records of the answer that
\* arrived last, whichever search was started first.
Thm_C20_LastResponseWins ==
  (probe.status = "searching" /\ Len(probe.urls) = 2)
    => /\ \A i \in 1..2 :
            (\A j \in 1..Len(probe.arrived) : probe.arrived[j].url # probe.urls[i])
              => ListTask(probe.urls[i]) \in Suspended
       /\ Len(probe.arrived) = 2
            => /\ rows = SortItems(probe.arrived[2].resp)
               /\ \A t \in Suspended : t.stage # "list"

\* the search started first was answered last, with other records than the
\* second search: rows holds the records of the first search
Wit_C20_FirstStartedAnsweredLast ==
  /\ probe.status = "searching" /\ Len(probe.urls) = 2 /\ Len(probe.arrived) = 2
  /\ probe.arrived[2].url = probe.urls[1]
  /\ probe.arrived[1].url = probe.urls[2]
  /\ SortItems(probe.arrived[1].resp) # SortItems(probe.arrived[2].resp)
  /\ probe.arrived[2].resp # <<>>
  /\ rows = SortItems(probe.arrived[2].resp)

\* C19: while a toggle-add is suspended at its geometry fetch or at its
\* all-properties fetch, no other toggleVersion call changes selectedKeys,
\* colorByKey or the features of the vector source: a removal runs only when
\* nothing is suspended, and the mutation step of a toggle-add only when that
\* toggle-add is the one suspended call.
Cex_C19_NoInterleavedMutation ==
  [][/\ \A row \in Rows : ToggleRemove(row) => pending = EmptyBag
     /\ \A t \in Suspended :
          (t.stage = "geom" /\ GeometryLoaded(t)) => BagCardinality(pending) = 1]_vars

\* C21: the mutation step of a toggle-add writes the selectedKeys held right
\* before the step with the key of its row appended: every key selected
\* before the step stays selected, and no key other than the row's own is
\* added by it.
Cex_C21_AddAppendsToCurrent ==
  [][\A t \in Suspended :
       (t.stage = "geom" /\ GeometryLoaded(t))
         => selectedKeys' = Append(selectedKeys, KeyOf(t.row))]_vars

\* the step issued one more listing request for the entered term, filtered by
\* the date value
RequestedAsOf(value) ==
  LET task == ListTask(BuildWfsUrl(Trim(term), OrUndefined(value)))
  IN CopiesIn(task, pending') = CopiesIn(task, pending) + 1

\* C22: with a full identifier entered, the listing request issued by a
\* change of the date input is filtered by the value just entered, and the
\* request issued by the clear-date button carries no validity predicate.
Cex_C22_DateChangeUsesNewDate ==
  [][(Truthy(term) /\ TUNNUS_RE(term))
       => /\ \A v \in AsOfValues : DateInput(v) => RequestedAsOf(v)
          /\ DateClear => RequestedAsOf("")]_vars

\* C23: loading is true exactly when a listing request is in flight; hence
\* the submit button is never enabled while a listing request is in flight.
Cex_C23_LoadingTracksRequests ==
  /\ loading <=> (\E t \in Suspended : t.stage = "list")
  /\ (\E t \in Suspended : t.stage = "list") => ~ ENABLED Submit

\* C24: no step of a search changes selectedKeys, colorByKey, the features of
\* the vector source or the drawer: not the call of doSearch (from the form,
\* the date controls or the popup; accepted or refused by the validation), not
\* the arrival of its answer (with records or empty), not its failure.
Thm_C24_SearchKeepsSelection ==
  [][(\/ Submit
      \/ PopupTunnusClick
      \/ DateClear
      \/ \E v \in AsOfValues : DateInput(v)
      \/ \E t \in {u \in Suspended : u.stage = "list"} :
           \/ \E resp \in ListResponses(t.url) : ListLoaded(t, resp)
           \/ \E outcome \in ListFailures : ListFailed(t, outcome))
       => UNCHANGED <<overlay, drawer>>]_vars

\* with a version selected, its feature on the map and the drawer open, a
\* further search was answered with records
Wit_C24_SearchedWithSelection ==
  /\ probe.status = "searching" /\ Len(probe.arrived) = 1
  /\ rows # <<>>
  /\ selectedKeys # <<>>
  /\ vecSrc # {}
  /\ drawer.open

TypeOK ==
  /\ selectedKeys \in Seq(AllKeys)
  /\ DOMAIN colorByKey \subseteq AllKeys
  /\ drawer.open \in BOOLEAN
  /\ toast \in {Null, CapacityToast}
  /\ BagCardinality(pending) <= MaxPending
  /\ FeatureKeys(vecSrc) \subseteq AllKeys
====
